---------------------------- MODULE Spec2Model ----------------------------
(***************************************************************************)
(* Model of the AS5047D SPI driver (src/src/driver.rs).                    *)
(*                                                                         *)
(* The driver owns one SPI device and talks to the sensor in 16-bit        *)
(* frames, one frame per SPI transaction.  The model keeps the driver's    *)
(* call stack (one activation record per function of driver.rs that is     *)
(* executing), the frames put on the bus, and the SPI device on the other  *)
(* side of the bus.  Every action is one function of driver.rs running     *)
(* from one suspension point (an SPI transfer, or the return of a callee)  *)
(* to the next.                                                            *)
(***************************************************************************)
EXTENDS Integers, Sequences, FiniteSets, TLC

VARIABLES
    stack,      \* activation records of the driver functions that are executing
    ret,        \* value a callee has just returned to the record below it, or None
    spiLog,     \* tx buffers of the SPI transfers issued by the current top-level call
    fLog,       \* arguments the closure of modify_register was applied to in that call
    lastXfer,   \* what the most recent SPI transfer of that call returned
    script,     \* the caller's program: the calls it still has to make
    results,    \* what the calls made so far returned, in order
    transport,  \* which SPI device the driver was constructed over
    dev         \* the sensor behind the bus (used when transport = "device")

vars == <<stack, ret, spiLog, fLog, lastXfer, script, results, transport, dev>>

---------------------------------------------------------------------------
(* Bounds of the model *)

\* number of distinct errors the SPI device can report
NumErrors == 2

---------------------------------------------------------------------------
(* u16 arithmetic *)

U16 == 65536
U8 == 256

RECURSIVE BitAnd(_, _)
\* a & b
BitAnd(a, b) ==
    IF a = 0 \/ b = 0 THEN 0
    ELSE (a % 2) * (b % 2) + 2 * BitAnd(a \div 2, b \div 2)

RECURSIVE BitOr(_, _)
\* a | b
BitOr(a, b) ==
    IF a = 0 THEN b
    ELSE IF b = 0 THEN a
    ELSE (IF a % 2 = 1 \/ b % 2 = 1 THEN 1 ELSE 0) + 2 * BitOr(a \div 2, b \div 2)

\* !a on a u16
BitNot16(a) == (U16 - 1) - a

\* a << n on a u16 (bits shifted out are lost)
Shl16(a, n) == (a * (2 ^ n)) % U16

\* a >> n
Shr(a, n) == a \div (2 ^ n)

\* a as u8
AsU8(a) == a % U8

RECURSIVE count_ones(_)
\* u16::count_ones
count_ones(x) == IF x = 0 THEN 0 ELSE (x % 2) + count_ones(x \div 2)

\* (mutant) the least significant byte first
to_le_bytes(w) == <<w % U8, w \div U8>>

\* u16::to_be_bytes
to_be_bytes(w) == <<w \div U8, w % U8>>

\* u16::from_be_bytes
from_be_bytes(b) == b[1] * U8 + b[2]

---------------------------------------------------------------------------
(* utils.rs *)

\* (mutant) the parity taken over all 16 bits, bit 15 not masked off
calculate_parity_of_16_bits(value) == count_ones(value) % 2 = 1

\* bits = value & 0x7FFF; bits.count_ones() % 2 == 1
calculate_parity(value) == count_ones(BitAnd(value, 32767)) % 2 = 1

\* frame.count_ones().is_multiple_of(2)
verify_parity(frame) == count_ones(frame) % 2 = 0

---------------------------------------------------------------------------
(* driver.rs: constants *)

READ_BIT == 16384       \* 0x4000
PARITY_BIT == 32768     \* 0x8000
ERROR_FLAG == 16384     \* 0x4000
DATA_MASK == 16383      \* 0x3FFF
NOP_COMMAND == 0        \* 0x0000
ANGLE_MAX == 16383 + 1  \* 0x3FFF + 1

---------------------------------------------------------------------------
(* register.rs: the register addresses (enum Register, repr(u16)) *)

Nop == 0            \* 0x0000
ErrFl == 1          \* 0x0001
Prog == 3           \* 0x0003
ZPosM == 22         \* 0x0016
ZPosL == 23         \* 0x0017
Settings1 == 24     \* 0x0018
Settings2 == 25     \* 0x0019
DiaAgc == 16380     \* 0x3FFC
Mag == 16381        \* 0x3FFD
AngleUnc == 16382   \* 0x3FFE
AngleCom == 16383   \* 0x3FFF

Register ==
    {Nop, ErrFl, Prog, ZPosM, ZPosL, Settings1, Settings2, DiaAgc, Mag, AngleUnc, AngleCom}

---------------------------------------------------------------------------
(* register.rs: bitfields.  A getter `name, _: msb, lsb` returns bits      *)
(* msb..lsb of the u16 as a u8; a setter replaces those bits by the low    *)
(* bits of its argument and leaves the others.                             *)

\* the mask of bits msb..lsb
FieldMask(msb, lsb) == (2 ^ (msb + 1)) - (2 ^ lsb)

bit_range(raw, msb, lsb) == AsU8(Shr(BitAnd(raw, FieldMask(msb, lsb)), lsb))

\* (mutant) a setter that ORs the new value in without clearing the field first
set_bit_range_no_clear(raw, msb, lsb, value) ==
    BitOr(raw, BitAnd(Shl16(value, lsb), FieldMask(msb, lsb)))

set_bit_range(raw, msb, lsb, value) ==
    BitOr(BitAnd(raw, BitNot16(FieldMask(msb, lsb))),
          BitAnd(Shl16(value, lsb), FieldMask(msb, lsb)))

\* ZeroPositionMsbRegister: zposm, set_zposm: 7, 0
zposm(raw) == bit_range(raw, 7, 0)
set_zposm(raw, value) == set_bit_range(raw, 7, 0, value)

\* (mutant) set_zposl over bits 7..0: it takes the two error-enable flags with it
set_zposl_over_flags(raw, value) == set_bit_range(raw, 7, 0, value)

\* ZeroPositionLsbRegister: zposl, set_zposl: 5, 0
zposl(raw) == bit_range(raw, 5, 0)
set_zposl(raw, value) == set_bit_range(raw, 5, 0, value)

---------------------------------------------------------------------------
(* error.rs: Result<u16, Error<E>> *)

None == [tag |-> "None", val |-> 0]
Ok(v) == [tag |-> "Ok", val |-> v]
Communication(e) == [tag |-> "Communication", val |-> e]
ParityError == [tag |-> "ParityError", val |-> 0]
SensorError == [tag |-> "SensorError", val |-> 0]

\* Ok(()) of the functions that return Result<(), _>
Unit == 0

IsErr(r) == r.tag \in {"Communication", "ParityError", "SensorError"}


---------------------------------------------------------------------------
(* The SPI device the driver is generic over (SPI: SpiDevice<u8>).         *)
(*                                                                         *)
(* "mock"       answers every transfer with any frame of SampleFrames, or  *)
(*              fails it with any error of Errors (the SpiMock of the      *)
(*              integration tests, with its expectations left open);       *)
(* "exhaustive" as "mock", but the frame of a transfer whose response the  *)
(*              driver validates is any of the 65536 frames;               *)
(* "device"     is the sensor itself: it answers each frame with the       *)
(*              result of the frame before it and never fails a transfer;  *)
(* "faulty"     is the sensor behind a bus that can fail: a transfer       *)
(*              brings the sensor's answer, or that answer with its        *)
(*              parity bit flipped, or fails with an error of Errors.  A   *)
(*              failed transfer has either clocked the frame out to the    *)
(*              sensor (even errors) or not (odd errors).                  *)

Errors == 1 .. NumErrors

\* Response frames of the mock: each class of (parity, error flag), and several
\* payloads of the class the driver accepts.
\*   0x0000 0x9234 0x0480 0x3FFF   even parity, flag clear
\*   0x5234 0xFFFF                 even parity, flag set
\*   0x1234                        odd parity, flag clear
\*   0xC001                        odd parity, flag set
SampleFrames == {0, 37428, 1152, 16383, 21044, 65535, 4660, 49153}

\* Responses of the exhaustive mock to the transfers the driver does not validate
IgnoredFrames == {0, 49153}

NoReg == 0 - 1

\* The frame the sensor answers the next transfer with: the pending payload, the
\* error flag while an error is latched, and the parity bit.
DeviceResponse(d) ==
    LET body == BitOr(d.pending, IF d.errfl # 0 THEN ERROR_FLAG ELSE 0)
    IN  IF count_ones(body) % 2 = 1 THEN 32768 + body ELSE body

\* The sensor after it received the frame tx (two bytes, most significant first)
DeviceReceive(d, tx) ==
    LET w == tx[1] * U8 + tx[2]
        addr == w % 16384
        rd == (w \div 16384) % 2 = 1
    IN  IF ~(count_ones(w) % 2 = 0)
        THEN \* parity error: the frame is dropped and PARERR (bit 2) is latched
             [d EXCEPT !.errfl = BitOr(@, 4), !.awaiting = NoReg, !.pending = 0]
        ELSE IF d.awaiting # NoReg
        THEN \* the data frame of a write
             [d EXCEPT !.regs[d.awaiting] = w % 16384, !.pending = w % 16384,
                       !.awaiting = NoReg]
        ELSE IF addr \notin Register
        THEN \* invalid command: INVCOMM (bit 1) is latched
             [d EXCEPT !.errfl = BitOr(@, 2), !.pending = 0]
        ELSE IF rd /\ addr = ErrFl
        THEN \* reading ERRFL clears it
             [d EXCEPT !.pending = d.errfl, !.errfl = 0]
        ELSE IF rd
        THEN [d EXCEPT !.pending = d.regs[addr]]
        ELSE IF addr = Nop
        THEN [d EXCEPT !.pending = 0]
        ELSE \* a write command: the data frame follows, the old value is returned
             [d EXCEPT !.awaiting = addr, !.pending = d.regs[addr]]

\* The frames the SPI device may answer a transfer with
RxFrames(validated) ==
    CASE transport = "mock" -> SampleFrames
      [] transport = "exhaustive" -> IF validated THEN 0 .. (U16 - 1) ELSE IgnoredFrames
      [] transport = "device" -> {DeviceResponse(dev)}
      [] transport = "faulty" ->
            {DeviceResponse(dev), (DeviceResponse(dev) + 32768) % U16}

\* SpiDevice::transfer(&mut rx, &tx): Ok(()) with rx filled, or Err(e)
TransferOutcomes(validated) ==
    {[ok |-> TRUE, rx |-> to_be_bytes(w), err |-> 0] : w \in RxFrames(validated)}
    \cup (IF transport = "device" THEN {}
          ELSE {[ok |-> FALSE, rx |-> <<0, 0>>, err |-> e] : e \in Errors})

\* No transfer made yet
NoXfer == [ok |-> TRUE, rx |-> <<>>, err |-> 0]

\* Whether the frame of a transfer reached the sensor
Delivered(t) == t.ok \/ t.err % 2 = 0

\* The bus during one transfer with outcome t: tx is sent, and the sensor receives it
Bus(tx, t) ==
    /\ spiLog' = Append(spiLog, tx)
    /\ lastXfer' = t
    /\ dev' = IF transport \in {"device", "faulty"} /\ Delivered(t)
              THEN DeviceReceive(dev, tx) ELSE dev

---------------------------------------------------------------------------
(* Activation records.  One record per executing function of driver.rs:    *)
(*   fn        the function                                                *)
(*   pc        the suspension point it is waiting at                       *)
(*   register  its `register` argument (a register address)                *)
(*   command   read_register, write_register: the local `command`          *)
(*   data      write_register: `data`; modify_register: `data`;            *)
(*             set_zero_position: `msb`; zero_position: `msb.0`            *)
(*   f         modify_register: the closure `f`                            *)
(*   rx        the rx buffers filled so far (rx_cmd, rx_data / rx_old,     *)
(*             rx_verify), in order                                        *)

NoF == [op |-> "none", arg |-> 0]

Rec(fn, pc, register, command, data, f) ==
    [fn |-> fn, pc |-> pc, register |-> register, command |-> command,
     data |-> data, f |-> f, rx |-> <<>>]

Top == stack[Len(stack)]

At(fn, pc) == stack # <<>> /\ Top.fn = fn /\ Top.pc = pc

\* The stack with its top record replaced by r
WithTop(r) == [stack EXCEPT ![Len(stack)] = r]

\* The stack with its top record replaced by r and the records rs pushed on it
WithTopAnd(r, rs) == SubSeq(stack, 1, Len(stack) - 1) \o <<r>> \o rs

\* The call the caller's program is at
CurrentCall == script[Len(results) + 1]

\* `return r`: the top record is dropped and r is handed to the record below, or
\* to the caller's program when the function was called from there.  The
\* caller's record of a finished call keeps, next to the value returned, the
\* outcome of the last transfer the call made (a ghost, for the properties).
Return(r) ==
    IF Len(stack) = 1
    THEN /\ stack' = <<>>
         /\ ret' = None
         /\ results' = Append(results, [call |-> CurrentCall, out |-> r,
                                      xfer |-> lastXfer'])
    ELSE /\ stack' = SubSeq(stack, 1, Len(stack) - 1)
         /\ ret' = r
         /\ UNCHANGED results

---------------------------------------------------------------------------
(* driver.rs: read_register *)

\* (mutant) the parity bit computed from the address, before the read bit is set
ReadCommand_parity_of_address(register) ==
    LET address == register
        command == BitOr(READ_BIT, address)
    IN  IF calculate_parity(address) THEN BitOr(PARITY_BIT, command) ELSE command

\* lines 50-58: the command word of a read
ReadCommand(register) ==
    LET address == register
        command == BitOr(READ_BIT, address)
    IN  IF calculate_parity(command) THEN BitOr(PARITY_BIT, command) ELSE command

\* (mutant) the response returned without the data mask
ReadResponse_unmasked(rx_data) ==
    LET response == from_be_bytes(rx_data)
    IN  IF ~verify_parity(response) THEN ParityError
        ELSE IF BitAnd(response, ERROR_FLAG) # 0 THEN SensorError
        ELSE Ok(response)

\* (mutant) the error flag checked before the parity
ReadResponse_flag_first(rx_data) ==
    LET response == from_be_bytes(rx_data)
    IN  IF BitAnd(response, ERROR_FLAG) # 0 THEN SensorError
        ELSE IF ~verify_parity(response) THEN ParityError
        ELSE Ok(BitAnd(response, DATA_MASK))

\* lines 79-100: the result of a read whose second transfer returned rx_data
ReadResponse(rx_data) ==
    LET response == from_be_bytes(rx_data)
    IN  IF ~verify_parity(response) THEN ParityError
        ELSE IF BitAnd(response, ERROR_FLAG) # 0 THEN SensorError
        ELSE Ok(BitAnd(response, DATA_MASK))

\* entry of read_register(register), up to its first transfer
read_register(register) ==
    <<Rec("read_register", "tx_cmd", register, ReadCommand(register), 0, NoF)>>

\* lines 67-71: self.spi.transfer(&mut rx_cmd, &tx_cmd).map_err(Error::Communication)?
read_register_tx_cmd ==
    /\ At("read_register", "tx_cmd")
    /\ \E t \in TransferOutcomes(FALSE) :
          /\ Bus(to_be_bytes(Top.command), t)
          /\ IF t.ok
             THEN /\ stack' = WithTop([Top EXCEPT !.pc = "tx_nop", !.rx = Append(@, t.rx)])
                  /\ UNCHANGED <<ret, results>>
             ELSE Return(Communication(t.err))
    /\ UNCHANGED <<fLog, script, transport>>

\* (mutant) a read that starts over when the response fails the parity check
read_register_tx_nop_retry ==
    /\ At("read_register", "tx_nop")
    /\ \E t \in TransferOutcomes(TRUE) :
          /\ Bus(to_be_bytes(NOP_COMMAND), t)
          /\ IF t.ok /\ ReadResponse(t.rx) = ParityError
             THEN /\ stack' = WithTop([Top EXCEPT !.pc = "tx_cmd", !.rx = <<>>])
                  /\ UNCHANGED <<ret, results>>
             ELSE IF t.ok
             THEN Return(ReadResponse(t.rx))
             ELSE Return(Communication(t.err))
    /\ UNCHANGED <<fLog, script, transport>>

\* (mutant) a driver that remembers a failure: once a call has returned an error,
\* every later read whose transfers succeed returns that error again
read_register_tx_nop_sticky ==
    /\ At("read_register", "tx_nop")
    /\ \E t \in TransferOutcomes(TRUE) :
          /\ Bus(to_be_bytes(NOP_COMMAND), t)
          /\ IF t.ok
             THEN IF results # <<>> /\ IsErr(results[Len(results)].out)
                  THEN Return(results[Len(results)].out)
                  ELSE Return(ReadResponse(t.rx))
             ELSE Return(Communication(t.err))
    /\ UNCHANGED <<fLog, script, transport>>

\* lines 73-100: the NOP transfer, then the checks of the response
read_register_tx_nop ==
    /\ At("read_register", "tx_nop")
    /\ \E t \in TransferOutcomes(TRUE) :
          /\ Bus(to_be_bytes(NOP_COMMAND), t)
          /\ IF t.ok
             THEN Return(ReadResponse(t.rx))
             ELSE Return(Communication(t.err))
    /\ UNCHANGED <<fLog, script, transport>>

---------------------------------------------------------------------------
(* driver.rs: write_register *)

\* lines 118-129: the command word of a write
WriteCommand(register) ==
    LET address == register
        command == address
    IN  IF calculate_parity(command) THEN BitOr(PARITY_BIT, command) ELSE command

\* (mutant) the data frame built from data without the data mask
DataFrame_unmasked(data) ==
    LET data_frame == data
    IN  IF calculate_parity(data_frame) THEN BitOr(PARITY_BIT, data_frame) ELSE data_frame

\* lines 137-142: the data frame of a write
DataFrame(data) ==
    LET data_frame == BitAnd(data, DATA_MASK)
    IN  IF calculate_parity(data_frame) THEN BitOr(PARITY_BIT, data_frame) ELSE data_frame

\* (mutant) the verification of a write without the check of the error flag
WriteResponse_parity_only(rx_verify) ==
    LET response == from_be_bytes(rx_verify)
    IN  IF ~verify_parity(response) THEN ParityError ELSE Ok(Unit)

\* lines 156-173: the result of a write whose third transfer returned rx_verify
WriteResponse(rx_verify) ==
    LET response == from_be_bytes(rx_verify)
    IN  IF ~verify_parity(response) THEN ParityError
        ELSE IF BitAnd(response, ERROR_FLAG) # 0 THEN SensorError
        ELSE Ok(Unit)

\* entry of write_register(register, data), up to its first transfer
write_register(register, data) ==
    <<Rec("write_register", "tx_cmd", register, WriteCommand(register), data, NoF)>>

\* lines 131-135
write_register_tx_cmd ==
    /\ At("write_register", "tx_cmd")
    /\ \E t \in TransferOutcomes(FALSE) :
          /\ Bus(to_be_bytes(Top.command), t)
          /\ IF t.ok
             THEN /\ stack' = WithTop([Top EXCEPT !.pc = "tx_data", !.rx = Append(@, t.rx)])
                  /\ UNCHANGED <<ret, results>>
             ELSE Return(Communication(t.err))
    /\ UNCHANGED <<fLog, script, transport>>

\* (mutant) the transfer of the data frame without the `?`: its error is dropped
write_register_tx_data_unchecked ==
    /\ At("write_register", "tx_data")
    /\ \E t \in TransferOutcomes(FALSE) :
          /\ Bus(to_be_bytes(DataFrame(Top.data)), t)
          /\ stack' = WithTop([Top EXCEPT !.pc = "tx_nop", !.rx = Append(@, t.rx)])
          /\ UNCHANGED <<ret, results>>
    /\ UNCHANGED <<fLog, script, transport>>

\* lines 137-148
write_register_tx_data ==
    /\ At("write_register", "tx_data")
    /\ \E t \in TransferOutcomes(FALSE) :
          /\ Bus(to_be_bytes(DataFrame(Top.data)), t)
          /\ IF t.ok
             THEN /\ stack' = WithTop([Top EXCEPT !.pc = "tx_nop", !.rx = Append(@, t.rx)])
                  /\ UNCHANGED <<ret, results>>
             ELSE Return(Communication(t.err))
    /\ UNCHANGED <<fLog, script, transport>>

\* (mutant) a write that also validates the response to its data frame, the old
\* value of the register
write_register_tx_nop_checks_old_value ==
    /\ At("write_register", "tx_nop")
    /\ \E t \in TransferOutcomes(TRUE) :
          /\ Bus(to_be_bytes(NOP_COMMAND), t)
          /\ IF t.ok
             THEN IF IsErr(WriteResponse(Top.rx[2]))
                  THEN Return(WriteResponse(Top.rx[2]))
                  ELSE Return(WriteResponse(t.rx))
             ELSE Return(Communication(t.err))
    /\ UNCHANGED <<fLog, script, transport>>

\* lines 150-173: the NOP transfer, then the checks of the response
write_register_tx_nop ==
    /\ At("write_register", "tx_nop")
    /\ \E t \in TransferOutcomes(TRUE) :
          /\ Bus(to_be_bytes(NOP_COMMAND), t)
          /\ IF t.ok
             THEN Return(WriteResponse(t.rx))
             ELSE Return(Communication(t.err))
    /\ UNCHANGED <<fLog, script, transport>>

---------------------------------------------------------------------------
(* driver.rs: modify_register *)

\* f(&mut data): the value the closure leaves in data.  set_zposl and set_zposm are
\* the closures of set_zero_position; the others stand for a caller's closure.
CallClosure(f, data) ==
    CASE f.op = "set_zposl" -> set_zposl(data, AsU8(f.arg))
      [] f.op = "set_zposm" -> set_zposm(data, AsU8(f.arg))
      [] f.op = "not" -> BitNot16(data)
      [] f.op = "or" -> BitOr(data, f.arg)
      [] OTHER -> data

\* entry of modify_register(register, f), up to the first transfer of its read
modify_register(register, f) ==
    <<Rec("modify_register", "read", register, 0, 0, f)>> \o read_register(register)

\* (mutant) the value read is written back, not the value f left in data
modify_register_after_read_stale ==
    /\ At("modify_register", "read")
    /\ ret # None
    /\ UNCHANGED <<spiLog, lastXfer, script, transport, dev>>
    /\ IF IsErr(ret)
       THEN Return(ret) /\ UNCHANGED fLog
       ELSE /\ fLog' = Append(fLog, ret.val)
            /\ stack' = WithTopAnd([Top EXCEPT !.pc = "write", !.data = ret.val],
                                   write_register(Top.register, ret.val))
            /\ ret' = None
            /\ UNCHANGED results

\* lines 181-185: `?` on the read, f(&mut data), the call of write_register
modify_register_after_read ==
    /\ At("modify_register", "read")
    /\ ret # None
    /\ UNCHANGED <<spiLog, lastXfer, script, transport, dev>>
    /\ IF IsErr(ret)
       THEN Return(ret) /\ UNCHANGED fLog
       ELSE LET data == CallClosure(Top.f, ret.val)
            IN  /\ fLog' = Append(fLog, ret.val)
                /\ stack' = WithTopAnd([Top EXCEPT !.pc = "write", !.data = data],
                                       write_register(Top.register, data))
                /\ ret' = None
                /\ UNCHANGED results

\* lines 185-187: `?` on the write, Ok(result)
modify_register_after_write ==
    /\ At("modify_register", "write")
    /\ ret # None
    /\ UNCHANGED <<spiLog, fLog, lastXfer, script, transport, dev>>
    /\ IF IsErr(ret) THEN Return(ret) ELSE Return(Ok(Unit))


---------------------------------------------------------------------------
(* driver.rs: the public functions *)

\* The functions that only forward to read_register and wrap its value
Forwarders == {"angle", "magnitude", "diagnostics", "clear_error_flag"}

\* lines 200-202: self.read_register(Register::AngleCom)
angle == <<Rec("angle", "read", 0, 0, 0, NoF)>> \o read_register(AngleCom)

angle_return ==
    /\ At("angle", "read")
    /\ ret # None
    /\ UNCHANGED <<spiLog, fLog, lastXfer, script, transport, dev>>
    /\ Return(ret)

\* (mutant) the full scale of the other sensor variant, 0x3FFF
Degrees_full_scale_3fff(a) ==
    LET saturated == a > 11930464
        degrees == IF saturated THEN 262159 ELSE (a * 360) \div 16383
    IN  degrees % U16

\* line 214: (u32::from(angle).saturating_mul(360)) / u32::from(ANGLE_MAX), as u16
\* The u32 product saturates at u32::MAX = 2^32 - 1, that is when the angle is
\* above u32::MAX / 360 = 11930464; u32::MAX / ANGLE_MAX is then 262143.  (The
\* model checker's integers are 32-bit signed, so u32::MAX itself is not written.)
Degrees(a) ==
    LET saturated == a > 11930464
        degrees == IF saturated THEN 262143 ELSE (a * 360) \div ANGLE_MAX
    IN  degrees % U16

\* lines 212-213: self.angle()?
angle_degrees == <<Rec("angle_degrees", "angle", 0, 0, 0, NoF)>> \o angle

\* lines 213-216
angle_degrees_after_angle ==
    /\ At("angle_degrees", "angle")
    /\ ret # None
    /\ UNCHANGED <<spiLog, fLog, lastXfer, script, transport, dev>>
    /\ IF IsErr(ret) THEN Return(ret) ELSE Return(Ok(Degrees(ret.val)))

\* lines 226-228: self.read_register(Register::Mag)
magnitude == <<Rec("magnitude", "read", 0, 0, 0, NoF)>> \o read_register(Mag)

magnitude_return ==
    /\ At("magnitude", "read")
    /\ ret # None
    /\ UNCHANGED <<spiLog, fLog, lastXfer, script, transport, dev>>
    /\ Return(ret)

\* lines 235-238: self.read_register(Register::DiaAgc).map(DiagnosticsAgcRegister)
diagnostics == <<Rec("diagnostics", "read", 0, 0, 0, NoF)>> \o read_register(DiaAgc)

diagnostics_return ==
    /\ At("diagnostics", "read")
    /\ ret # None
    /\ UNCHANGED <<spiLog, fLog, lastXfer, script, transport, dev>>
    /\ Return(ret)

\* (mutant) clear_error_flag that reads the NOP register instead of ErrFl
clear_error_flag_reads_nop ==
    <<Rec("clear_error_flag", "read", 0, 0, 0, NoF)>> \o read_register(Nop)

\* lines 245-247: self.read_register(Register::ErrFl).map(ErrorFlagRegister)
clear_error_flag ==
    <<Rec("clear_error_flag", "read", 0, 0, 0, NoF)>> \o read_register(ErrFl)

clear_error_flag_return ==
    /\ At("clear_error_flag", "read")
    /\ ret # None
    /\ UNCHANGED <<spiLog, fLog, lastXfer, script, transport, dev>>
    /\ Return(ret)

\* lines 249-252: the read of ZPosM
zero_position == <<Rec("zero_position", "msb", 0, 0, 0, NoF)>> \o read_register(ZPosM)

\* lines 250-255: `?` on the read of ZPosM, then the read of ZPosL
zero_position_after_msb ==
    /\ At("zero_position", "msb")
    /\ ret # None
    /\ UNCHANGED <<spiLog, fLog, lastXfer, script, transport, dev>>
    /\ IF IsErr(ret)
       THEN Return(ret)
       ELSE /\ stack' = WithTopAnd([Top EXCEPT !.pc = "lsb", !.data = ret.val],
                                   read_register(ZPosL))
            /\ ret' = None
            /\ UNCHANGED results

\* (mutant) the whole of ZPosM shifted, not its field zposm
ZeroPositionValue_unmasked(msb, lsb) == BitOr(Shl16(msb, 6), zposl(lsb))

\* line 257: ((msb.zposm() as u16) << 6) | (lsb.zposl() as u16)
ZeroPositionValue(msb, lsb) == BitOr(Shl16(zposm(msb), 6), zposl(lsb))

\* lines 253-257: `?` on the read of ZPosL, then the composed value
zero_position_after_lsb ==
    /\ At("zero_position", "lsb")
    /\ ret # None
    /\ UNCHANGED <<spiLog, fLog, lastXfer, script, transport, dev>>
    /\ IF IsErr(ret) THEN Return(ret) ELSE Return(Ok(ZeroPositionValue(Top.data, ret.val)))

\* (mutant) the halves split at bit 8 instead of bit 6
set_zero_position_split_at_8(value) ==
    LET lsb == BitAnd(value, 63)
        msb == Shr(value, 8)
    IN  <<Rec("set_zero_position", "lsb", 0, 0, msb, NoF)>>
        \o modify_register(ZPosL, [op |-> "set_zposl", arg |-> lsb])

\* (mutant) a value above 0x3FFF is set as 0x3FFF, not cut to its low 14 bits
set_zero_position_saturating(value) ==
    LET lsb == IF value > 16383 THEN 63 ELSE BitAnd(value, 63)
        msb == IF value > 16383 THEN 255 ELSE Shr(value, 6)
    IN  <<Rec("set_zero_position", "lsb", 0, 0, msb, NoF)>>
        \o modify_register(ZPosL, [op |-> "set_zposl", arg |-> lsb])

\* lines 261-268: lsb = value & 0b11_1111, msb = value >> 6 (kept in the record's
\* data), and the modify of ZPosL with the closure that captures lsb
set_zero_position(value) ==
    LET lsb == BitAnd(value, 63)
        msb == Shr(value, 6)
    IN  <<Rec("set_zero_position", "lsb", 0, 0, msb, NoF)>>
        \o modify_register(ZPosL, [op |-> "set_zposl", arg |-> lsb])

\* (mutant) the error of the modify of ZPosL is dropped and ZPosM is modified
set_zero_position_after_lsb_no_question_mark ==
    /\ At("set_zero_position", "lsb")
    /\ ret # None
    /\ UNCHANGED <<spiLog, fLog, lastXfer, script, transport, dev>>
    /\ stack' = WithTopAnd([Top EXCEPT !.pc = "msb"],
                           modify_register(ZPosM, [op |-> "set_zposm",
                                                   arg |-> Top.data]))
    /\ ret' = None
    /\ UNCHANGED results

\* lines 268-273: `?` on the modify of ZPosL, then the modify of ZPosM with the
\* closure that captures msb
set_zero_position_after_lsb ==
    /\ At("set_zero_position", "lsb")
    /\ ret # None
    /\ UNCHANGED <<spiLog, fLog, lastXfer, script, transport, dev>>
    /\ IF IsErr(ret)
       THEN Return(ret)
       ELSE /\ stack' = WithTopAnd([Top EXCEPT !.pc = "msb"],
                                   modify_register(ZPosM, [op |-> "set_zposm",
                                                           arg |-> Top.data]))
            /\ ret' = None
            /\ UNCHANGED results

\* lines 273-275: `?` on the modify of ZPosM, Ok(())
set_zero_position_after_msb ==
    /\ At("set_zero_position", "msb")
    /\ ret # None
    /\ UNCHANGED <<spiLog, fLog, lastXfer, script, transport, dev>>
    /\ IF IsErr(ret) THEN Return(ret) ELSE Return(Ok(Unit))

---------------------------------------------------------------------------
(* The caller: a program that is a sequence of calls on one driver *)

TheCall(fn, register, data, f) == [fn |-> fn, register |-> register, data |-> data, f |-> f]

\* The records a call pushes: the called function up to its first transfer
Enter(c) ==
    CASE c.fn = "angle" -> angle
      [] c.fn = "angle_degrees" -> angle_degrees
      [] c.fn = "magnitude" -> magnitude
      [] c.fn = "diagnostics" -> diagnostics
      [] c.fn = "clear_error_flag" -> clear_error_flag
      [] c.fn = "zero_position" -> zero_position
      [] c.fn = "set_zero_position" -> set_zero_position(c.data)
      [] c.fn = "read_register" -> read_register(c.register)
      [] c.fn = "write_register" -> write_register(c.register, c.data)
      [] c.fn = "modify_register" -> modify_register(c.register, c.f)

\* (mutant) a handle that lets a call begin while another is in progress
Call_while_borrowed ==
    /\ Len(results) < Len(script)
    /\ stack' = Enter(CurrentCall)
    /\ ret' = None
    /\ spiLog' = <<>>
    /\ fLog' = <<>>
    /\ lastXfer' = NoXfer
    /\ UNCHANGED <<script, results, transport, dev>>

\* The caller makes the next call of its program.  Every method borrows the
\* handle exclusively (&mut self): a call begins only when none is in progress.
Call ==
    /\ stack = <<>>
    /\ Len(results) < Len(script)
    /\ stack' = Enter(CurrentCall)
    /\ ret' = None
    /\ spiLog' = <<>>
    /\ fLog' = <<>>
    /\ lastXfer' = NoXfer
    /\ UNCHANGED <<script, results, transport, dev>>

\* Arguments the calls are made with
ZeroValues == {0, 1, 63, 64, 4660, 10922, 16320, 16383, 16384, 43981, 65535}
DataValues == {0, 1, 4660, 16383, 16384, 32769, 65535}
Closures ==
    {[op |-> "keep", arg |-> 0], [op |-> "not", arg |-> 0], [op |-> "or", arg |-> 49152],
     [op |-> "set_zposl", arg |-> 42], [op |-> "set_zposm", arg |-> 165]}

PublicCalls ==
    {TheCall(fn, 0, 0, NoF) : fn \in Forwarders \cup {"angle_degrees", "zero_position"}}
    \cup {TheCall("set_zero_position", 0, v, NoF) : v \in ZeroValues}

PrivateCalls ==
    {TheCall("read_register", r, 0, NoF) : r \in Register}
    \cup {TheCall("write_register", r, d, NoF) : r \in Register, d \in DataValues}
    \cup {TheCall("modify_register", r, 0, f) : r \in {ErrFl, ZPosM, ZPosL, Settings1}, f \in Closures}

\* The sensor after power-up, with the given zero position registers
Device(m, l) ==
    [regs |-> [r \in Register |->
                  CASE r = ZPosM -> m
                    [] r = ZPosL -> l
                    [] r = AngleCom -> 4660
                    [] r = AngleUnc -> 4661
                    [] r = Mag -> 3000
                    [] r = DiaAgc -> 1152
                    [] OTHER -> 0],
     pending |-> 0, awaiting |-> NoReg, errfl |-> 0]

---------------------------------------------------------------------------
(* Specifications *)

\* One call of any function of the driver over the mock
Init ==
    /\ stack = <<>>
    /\ ret = None
    /\ spiLog = <<>>
    /\ fLog = <<>>
    /\ lastXfer = NoXfer
    /\ results = <<>>
    /\ transport = "mock"
    /\ dev = Device(0, 0)
    /\ script \in {<<c>> : c \in PublicCalls \cup PrivateCalls}

Next ==
    \/ Call
    \/ read_register_tx_cmd
    \/ read_register_tx_nop
    \/ write_register_tx_cmd
    \/ write_register_tx_data
    \/ write_register_tx_nop
    \/ modify_register_after_read
    \/ modify_register_after_write
    \/ angle_return
    \/ angle_degrees_after_angle
    \/ magnitude_return
    \/ diagnostics_return
    \/ clear_error_flag_return
    \/ zero_position_after_msb
    \/ zero_position_after_lsb
    \/ set_zero_position_after_lsb
    \/ set_zero_position_after_msb

Spec == Init /\ [][Next]_vars


\* One call of a function whose last transfer is validated, over the mock that
\* answers that transfer with every 16-bit frame
ExhaustiveCalls ==
    {TheCall(fn, 0, 0, NoF) : fn \in {"angle", "angle_degrees", "magnitude", "diagnostics"}}
    \cup {TheCall("read_register", ZPosM, 0, NoF), TheCall("write_register", ZPosL, 4660, NoF)}

InitExhaustive ==
    /\ stack = <<>>
    /\ ret = None
    /\ spiLog = <<>>
    /\ fLog = <<>>
    /\ lastXfer = NoXfer
    /\ results = <<>>
    /\ transport = "exhaustive"
    /\ dev = Device(0, 0)
    /\ script \in {<<c>> : c \in ExhaustiveCalls}

NextExhaustive ==
    \/ Call
    \/ read_register_tx_cmd
    \/ read_register_tx_nop
    \/ write_register_tx_cmd
    \/ write_register_tx_data
    \/ write_register_tx_nop
    \/ angle_return
    \/ angle_degrees_after_angle
    \/ magnitude_return
    \/ diagnostics_return

SpecExhaustive == InitExhaustive /\ [][NextExhaustive]_vars

\* The zero positions the program sets: every 14-bit value
ZeroSweep == 0 .. 16383

\* What ZPosM and ZPosL hold before the program runs
StoredZero == {<<0, 0>>, <<16383, 16383>>, <<4660, 10922>>}

\* set_zero_position(v) followed by zero_position(), over the sensor
InitDevice ==
    /\ stack = <<>>
    /\ ret = None
    /\ spiLog = <<>>
    /\ fLog = <<>>
    /\ lastXfer = NoXfer
    /\ results = <<>>
    /\ transport = "device"
    /\ dev \in {Device(z[1], z[2]) : z \in StoredZero}
    /\ script \in {<<TheCall("set_zero_position", 0, v, NoF), TheCall("zero_position", 0, 0, NoF)>> :
                      v \in ZeroSweep}

NextDevice ==
    \/ Call
    \/ read_register_tx_cmd
    \/ read_register_tx_nop
    \/ write_register_tx_cmd
    \/ write_register_tx_data
    \/ write_register_tx_nop
    \/ modify_register_after_read
    \/ modify_register_after_write
    \/ zero_position_after_msb
    \/ zero_position_after_lsb
    \/ set_zero_position_after_lsb
    \/ set_zero_position_after_msb

SpecDevice == InitDevice /\ [][NextDevice]_vars


---------------------------------------------------------------------------
(* Properties.  The frames they expect are written with the arithmetic     *)
(* below, not with the driver's own operators.                             *)

\* The number of one-bits of a 16-bit word
Ones(w) == Cardinality({i \in 0 .. 15 : (w \div (2 ^ i)) % 2 = 1})

\* Bit i of w
Bit(w, i) == (w \div (2 ^ i)) % 2

\* The 15-bit word w with bit 15 set iff w has an odd number of one-bits
WithParity(w) == IF Ones(w) % 2 = 1 THEN 32768 + w ELSE w

\* The two bytes of a frame on the wire, most significant first
Wire(w) == <<w \div 256, w % 256>>

IsPrefix(s, t) == Len(s) <= Len(t) /\ \A i \in 1 .. Len(s) : s[i] = t[i]

\* A call has been made
Active == stack # <<>> \/ results # <<>>

\* The last call made has returned
Finished == stack = <<>> /\ results # <<>>

\* The last call made, and what it returned once it has
LastCall == IF stack = <<>> THEN results[Len(results)].call ELSE CurrentCall
LastOut == results[Len(results)].out

\* The last transfer was transfer number n of the call and returned a frame
Received(n) == Len(spiLog) = n /\ lastXfer.ok

\* The frame the last transfer returned
RxFrame == lastXfer.rx[1] * 256 + lastXfer.rx[2]

\* The functions that are one read of a register
ReadCalls == {"read_register", "angle", "magnitude", "diagnostics", "clear_error_flag"}

\* The address a call that is one read reads
ReadAddress(c) ==
    CASE c.fn = "angle" -> 16383
      [] c.fn = "magnitude" -> 16381
      [] c.fn = "diagnostics" -> 16380
      [] c.fn = "clear_error_flag" -> 1
      [] OTHER -> c.register

\* The transfers of a read of address a, and of a write of d to address a
ReadTransfers(a) == <<Wire(WithParity(16384 + a)), Wire(0)>>
WriteTransfers(a, d) == <<Wire(WithParity(a)), Wire(WithParity(d % 16384)), Wire(0)>>

\* C1: read_register(r) issues, when no transfer fails, exactly two transfers: the
\* command word 0x4000 | address(r) with bit 15 set iff the low 15 bits have an odd
\* number of one-bits, then the NOP word 0x0000; angle() does so with address 0x3FFF.
C1_ReadIsCommandThenNop ==
    (Active /\ LastCall.fn \in {"read_register", "angle"}) =>
        LET expected == ReadTransfers(ReadAddress(LastCall))
        IN  /\ IsPrefix(spiLog, expected)
            /\ (Finished /\ LastOut.tag # "Communication") => spiLog = expected

C1_Witness ==
    /\ Finished
    /\ LastCall.fn = "angle"
    /\ LastOut = [tag |-> "Ok", val |-> 4660]
    /\ spiLog = <<<<255, 255>>, <<0, 0>>>>

\* C2: in a read, a second-transfer frame f with an even number of one-bits and bit
\* 14 clear gives Ok(f & 0x3FFF); every successful read returns a value in 0..16383.
C2_ReadReturnsPayload ==
    (Finished /\ LastCall.fn \in ReadCalls /\ Received(2)) =>
        /\ (Ones(RxFrame) % 2 = 0 /\ Bit(RxFrame, 14) = 0)
              => LastOut = [tag |-> "Ok", val |-> RxFrame % 16384]
        /\ LastOut.tag = "Ok" => LastOut.val \in 0 .. 16383

C2_Witness ==
    /\ Finished
    /\ LastCall.fn = "magnitude"
    /\ lastXfer.rx = <<146, 52>>
    /\ LastOut = [tag |-> "Ok", val |-> 4660]

\* The number of the transfer whose response a read or a write validates
FinalTransfer(c) == IF c.fn = "write_register" THEN 3 ELSE 2

\* C3: a validated response with an odd number of one-bits gives Err(ParityError),
\* also when its bit 14 is set (0xC001): parity is checked before the error flag.
C3_OddParityIsParityError ==
    (Finished /\ LastCall.fn \in ReadCalls \cup {"write_register"}
              /\ Received(FinalTransfer(LastCall)) /\ Ones(RxFrame) % 2 = 1)
        => LastOut = [tag |-> "ParityError", val |-> 0]

C3_Witness ==
    /\ Finished
    /\ LastCall.fn = "angle"
    /\ lastXfer.rx = <<192, 1>>
    /\ LastOut.tag = "ParityError"

\* C4: a validated response with an even number of one-bits and bit 14 set gives
\* Err(SensorError), whatever its payload.
C4_ErrorFlagIsSensorError ==
    (Finished /\ LastCall.fn \in ReadCalls \cup {"write_register"}
              /\ Received(FinalTransfer(LastCall))
              /\ Ones(RxFrame) % 2 = 0 /\ Bit(RxFrame, 14) = 1)
        => LastOut = [tag |-> "SensorError", val |-> 0]

C4_Witness ==
    /\ Finished
    /\ LastCall.fn = "write_register"
    /\ lastXfer.rx = <<255, 255>>
    /\ LastOut.tag = "SensorError"

\* C5: write_register(r, d) issues, when no transfer fails, exactly three transfers:
\* the command word address(r) with bit 14 clear and its parity bit, the data frame
\* d & 0x3FFF with its parity bit, the NOP word; it returns Ok(()) iff the third
\* response has even parity and bit 14 clear, whatever that response's payload.
C5_WriteIsCommandDataNop ==
    (Active /\ LastCall.fn = "write_register") =>
        LET expected == WriteTransfers(LastCall.register, LastCall.data)
        IN  /\ IsPrefix(spiLog, expected)
            /\ (Finished /\ LastOut.tag # "Communication") =>
                  /\ spiLog = expected
                  /\ lastXfer.ok
                  /\ LastOut = [tag |-> "Ok", val |-> 0]
                        <=> (Ones(RxFrame) % 2 = 0 /\ Bit(RxFrame, 14) = 0)

C5_Witness ==
    /\ Finished
    /\ LastCall = TheCall("write_register", ZPosL, 65535, NoF)
    /\ spiLog = <<<<0, 23>>, <<63, 255>>, <<0, 0>>>>
    /\ lastXfer.rx = <<146, 52>>
    /\ LastOut = [tag |-> "Ok", val |-> 0]


\* C6: when the transport fails a transfer of any operation, the operation returns
\* Err(Communication(e)) with that transfer's error e and issues no transfer after it.
\* (While the last transfer is a failed one, no function is at a transfer and the
\* error is on its way up the stack, or the call has returned it.)
C6_TransportFailureAborts ==
    ~lastXfer.ok =>
        IF stack = <<>>
        THEN LastOut = [tag |-> "Communication", val |-> lastXfer.err]
        ELSE /\ ret = [tag |-> "Communication", val |-> lastXfer.err]
             /\ Top.pc \notin {"tx_cmd", "tx_data", "tx_nop"}

C6_Witness ==
    /\ Finished
    /\ LastCall.fn = "set_zero_position"
    /\ Len(spiLog) = 10
    /\ ~lastXfer.ok
    /\ LastOut = [tag |-> "Communication", val |-> 2]

\* The largest number of transfers of a call
MaxTransfers(c) ==
    CASE c.fn \in ReadCalls \cup {"angle_degrees"} -> 2
      [] c.fn = "write_register" -> 3
      [] c.fn = "zero_position" -> 4
      [] c.fn = "modify_register" -> 5
      [] c.fn = "set_zero_position" -> 10

\* C7: the driver never retries and never clears the error flag on its own: whatever
\* the outcome, a read issues at most 2 transfers and a write at most 3 (a modify at
\* most 5, zero_position 4, set_zero_position 10), and the read command of ErrFl
\* (0x4001) is on the bus only inside clear_error_flag(), or when the caller of the
\* private read_register or modify_register named ErrFl itself.
C7_NoRetryNoAutoClear ==
    Active =>
        /\ Len(spiLog) <= MaxTransfers(LastCall)
        /\ \A i \in 1 .. Len(spiLog) :
              spiLog[i] = <<64, 1>> =>
                  \/ LastCall.fn = "clear_error_flag"
                  \/ LastCall.fn \in {"read_register", "modify_register"} /\ LastCall.register = 1

C7_Witness ==
    /\ Finished
    /\ LastCall.fn = "clear_error_flag"
    /\ spiLog = <<<<64, 1>>, <<0, 0>>>>
    /\ LastOut.tag = "SensorError"

\* The error of a read whose last transfer is the last transfer made
ReadFailure ==
    CASE ~lastXfer.ok -> [tag |-> "Communication", val |-> lastXfer.err]
      [] lastXfer.ok /\ Ones(RxFrame) % 2 = 1 -> [tag |-> "ParityError", val |-> 0]
      [] lastXfer.ok /\ Ones(RxFrame) % 2 = 0 /\ Bit(RxFrame, 14) = 1 ->
            [tag |-> "SensorError", val |-> 0]
      [] OTHER -> [tag |-> "NoFailure", val |-> 0]

\* C8: modify_register(r, f) reads r, applies f once to the 14-bit value read, then
\* writes the transformed value to r: 5 transfers on success, the read's before the
\* write's.  When the read fails, f is not applied, no transfer of the write is
\* issued, and the read's error is returned unchanged.
C8_ModifyIsReadThenWrite ==
    (Active /\ LastCall.fn = "modify_register") =>
        LET r == LastCall.register
            f == LastCall.f
        IN  /\ Len(fLog) <= 1
            /\ Len(spiLog) <= 2 =>
                  /\ IsPrefix(spiLog, ReadTransfers(r))
                  /\ Finished => (fLog = <<>> /\ LastOut = ReadFailure)
                  /\ (stack # <<>> /\ ret.tag \notin {"None", "Ok"})
                        => (fLog = <<>> /\ ret = ReadFailure)
                  /\ fLog # <<>> => (Received(2) /\ fLog = <<RxFrame % 16384>>)
            /\ Len(spiLog) >= 3 =>
                  /\ Len(fLog) = 1
                  /\ fLog[1] \in 0 .. 16383
                  /\ IsPrefix(spiLog,
                              ReadTransfers(r) \o WriteTransfers(r, CallClosure(f, fLog[1])))
            /\ (Finished /\ LastOut.tag = "Ok") => Len(spiLog) = 5

C8_Witness ==
    /\ Finished
    /\ LastCall = TheCall("modify_register", ZPosL, 0, [op |-> "not", arg |-> 0])
    /\ fLog = <<4660>>
    /\ spiLog = <<<<192, 23>>, <<0, 0>>, <<0, 23>>, <<173, 203>>, <<0, 0>>>>
    /\ LastOut = [tag |-> "Ok", val |-> 0]

\* C8, the failing read: the read of a modify_register fails and nothing is written
C8_WitnessReadFails ==
    /\ Finished
    /\ LastCall.fn = "modify_register"
    /\ spiLog = <<<<192, 23>>, <<0, 0>>>>
    /\ fLog = <<>>
    /\ LastOut.tag = "SensorError"

\* C9: over a sensor that stores each written 14-bit register value and returns it
\* on a later read with correct parity and no error flag, set_zero_position(v)
\* followed by zero_position() returns Ok(v), for v in 0..16383.
C9_ZeroPositionRoundTrip ==
    /\ Len(results) >= 1 => results[1].out = [tag |-> "Ok", val |-> 0]
    /\ Len(results) = 2 =>
          /\ results[1].call.fn = "set_zero_position"
          /\ results[2].call.fn = "zero_position"
          /\ results[2].out = [tag |-> "Ok", val |-> results[1].call.data]

C9_Witness ==
    /\ Len(results) = 2
    /\ results[1].call.data = 10602
    /\ results[2].out = [tag |-> "Ok", val |-> 10602]
    /\ dev.regs[ZPosM] = 4608 + 165
    /\ dev.regs[ZPosL] = 10880 + 42

\* C10: for every raw angle a in 0..16383 that angle() returns, angle_degrees()
\* returns floor(a * 360 / ANGLE_MAX), a value in 0..359: 0 for raw 0 and 359 for raw
\* ANGLE_MAX - 1; the product does not saturate and the result is not truncated.
C10_DegreesIsFloor ==
    (Finished /\ LastCall.fn = "angle_degrees" /\ Received(2)
              /\ Ones(RxFrame) % 2 = 0 /\ Bit(RxFrame, 14) = 0) =>
        LET a == RxFrame % 16384
        IN  /\ LastOut = [tag |-> "Ok", val |-> (a * 360) \div ANGLE_MAX]
            /\ LastOut.val \in 0 .. 359
            /\ a = 0 => LastOut.val = 0
            /\ a = ANGLE_MAX - 1 => LastOut.val = 359

C10_Witness ==
    /\ Finished
    /\ LastCall.fn = "angle_degrees"
    /\ lastXfer.rx = <<63, 255>>
    /\ LastOut = [tag |-> "Ok", val |-> 359]

\* ---------------------------------------------------------------------------
\* The diagnostics decoders
\* ---------------------------------------------------------------------------

\* DiagnosticsAgcRegister, the type diagnostics() wraps the register's payload
\* in: four one-bit flags and the eight-bit gain.
magl(raw) == bit_range(raw, 11, 11) = 1

magh(raw) == bit_range(raw, 10, 10) = 1

cof(raw) == bit_range(raw, 9, 9) = 1

\* "Offset compensation": 1 when the internal offset loop has finished
lf(raw) == bit_range(raw, 8, 8) = 1

agc(raw) == bit_range(raw, 7, 0)

magnetic_field_ok(raw) == ~magh(raw) /\ ~magl(raw)

is_valid(raw) == ~cof(raw) /\ magnetic_field_ok(raw)

\* Diagnostics, the decoder the crate exports: it tests the raw value against
\* four masks of its own.
comp_high(raw) == BitAnd(raw, 8192) # 0

comp_low(raw) == BitAnd(raw, 4096) # 0

cordic_overflow(raw) == BitAnd(raw, 2048) # 0

offset_comp_finished(raw) == BitAnd(raw, 1024) # 0

agc_value(raw) == AsU8(BitAnd(raw, 255))

Diagnostics_magnetic_field_ok(raw) == ~comp_high(raw) /\ ~comp_low(raw)

Diagnostics_is_valid(raw) == ~cordic_overflow(raw) /\ Diagnostics_magnetic_field_ok(raw)

\* ---------------------------------------------------------------------------
\* C11 .. C20
\* ---------------------------------------------------------------------------

\* C11: when the read of the diagnostics register returns the payload 0x0480 with
\* even parity and no error flag, the value diagnostics() returns reports the
\* offset compensation as finished, an AGC value of 0x80 and is_valid() as true.
\* The value returned is a DiagnosticsAgcRegister: in 0x0480 its offset-loop
\* flag (bit 8) is clear and its field-too-strong flag (bit 10) is set.
C11_Diagnostics0480 ==
    (Finished /\ LastCall.fn = "diagnostics" /\ Received(2)
              /\ Ones(RxFrame) % 2 = 0 /\ Bit(RxFrame, 14) = 0
              /\ RxFrame % 16384 = 1152) =>
        /\ LastOut.tag = "Ok"
        /\ lf(LastOut.val)
        /\ agc(LastOut.val) = 128
        /\ is_valid(LastOut.val)

\* What the code does in that case
C11_Witness ==
    /\ Finished
    /\ LastCall.fn = "diagnostics"
    /\ lastXfer.rx = <<4, 128>>
    /\ LastOut = [tag |-> "Ok", val |-> 1152]
    /\ ~lf(LastOut.val)
    /\ magh(LastOut.val)
    /\ ~is_valid(LastOut.val)
    /\ agc(LastOut.val) = 128
    /\ offset_comp_finished(LastOut.val)
    /\ Diagnostics_is_valid(LastOut.val)

\* C12: magnitude() transmits, as its first transfer, the read command for the
\* register address 0x3FFE (0x4000 | 0x3FFE with its parity bit), and returns
\* the 14-bit payload of the second response.
C12_MagnitudeReads3FFE ==
    /\ (Active /\ LastCall.fn = "magnitude" /\ spiLog # <<>>) =>
          spiLog[1] = Wire(WithParity(16384 + 16382))
    /\ (Finished /\ LastCall.fn = "magnitude" /\ Received(2)
                 /\ Ones(RxFrame) % 2 = 0 /\ Bit(RxFrame, 14) = 0) =>
          LastOut = [tag |-> "Ok", val |-> RxFrame % 16384]

\* What the code does: the command on the wire is the one for Register::Mag,
\* 0x3FFD, and the payload of the second response is returned.
C12_Witness ==
    /\ Finished
    /\ LastCall.fn = "magnitude"
    /\ spiLog = <<Wire(WithParity(16384 + 16381)), <<0, 0>>>>
    /\ spiLog[1] = <<127, 253>>
    /\ lastXfer.rx = <<146, 52>>
    /\ LastOut = [tag |-> "Ok", val |-> 4660]

\* C13: diagnostics() transmits, as its first transfer, the read command for the
\* register address 0x3FFD (0x4000 | 0x3FFD with its parity bit).
C13_DiagnosticsReads3FFD ==
    (Active /\ LastCall.fn = "diagnostics" /\ spiLog # <<>>) =>
        spiLog[1] = Wire(WithParity(16384 + 16381))

\* What the code does: the command on the wire is the one for
\* Register::DiaAgc, 0x3FFC.
C13_Witness ==
    /\ Finished
    /\ LastCall.fn = "diagnostics"
    /\ spiLog = <<Wire(WithParity(16384 + 16380)), <<0, 0>>>>
    /\ spiLog[1] = <<255, 252>>
    /\ LastOut.tag = "Ok"

\* ---------------------------------------------------------------------------
\* Several calls on one handle
\* ---------------------------------------------------------------------------

\* The largest number of calls of a program
MaxCalls == 3

\* The programs of n calls of angle(), n in 1..MaxCalls
AnglePrograms ==
    {[k \in 1 .. n |-> TheCall("angle", 0, 0, NoF)] : n \in 1 .. MaxCalls}

\* A program of calls of angle() on one handle, over the mock
InitSequence ==
    /\ stack = <<>>
    /\ ret = None
    /\ spiLog = <<>>
    /\ fLog = <<>>
    /\ lastXfer = NoXfer
    /\ results = <<>>
    /\ transport = "mock"
    /\ dev = Device(0, 0)
    /\ script \in AnglePrograms

NextSequence ==
    \/ Call
    \/ read_register_tx_cmd
    \/ read_register_tx_nop
    \/ angle_return

SpecSequence == InitSequence /\ [][NextSequence]_vars

\* What the outcome x of the last transfer of a read makes of the read
OutcomeOf(x) ==
    IF ~x.ok THEN [tag |-> "Communication", val |-> x.err]
    ELSE LET frame == x.rx[1] * 256 + x.rx[2]
         IN  IF Ones(frame) % 2 = 1 THEN [tag |-> "ParityError", val |-> 0]
             ELSE IF Bit(frame, 14) = 1 THEN [tag |-> "SensorError", val |-> 0]
             ELSE [tag |-> "Ok", val |-> frame % 16384]

\* C14: the driver keeps no state between operations: in a sequence of calls of
\* angle() on one handle the k-th result is that of the k-th call, in the order
\* issued, and it is what the k-th call's own last transfer makes of it: Ok(pk)
\* when the response is valid with payload pk, the error of that transfer or of
\* that response otherwise, whatever the earlier calls returned.
C14_CallsAreIndependent ==
    \A k \in 1 .. Len(results) :
        /\ results[k].call = script[k]
        /\ results[k].call.fn = "angle"
        /\ results[k].out = OutcomeOf(results[k].xfer)

\* Three calls: an error, then two successes with their own payloads
C14_Witness ==
    /\ Len(results) = 3
    /\ results[1].out = [tag |-> "SensorError", val |-> 0]
    /\ results[2].xfer.rx = <<146, 52>>
    /\ results[2].out = [tag |-> "Ok", val |-> 4660]
    /\ results[3].xfer.rx = <<63, 255>>
    /\ results[3].out = [tag |-> "Ok", val |-> 16383]

\* ---------------------------------------------------------------------------
\* The parity functions on their own
\* ---------------------------------------------------------------------------

\* `if calculate_parity(w) { PARITY_BIT | w } else { w }`: how the driver frames
\* a word
ParityFramed(w) == IF calculate_parity(w) THEN BitOr(PARITY_BIT, w) ELSE w

\* For every 16-bit word w the program calls calculate_parity(w), then
\* verify_parity(w), and for a word with bit 15 clear verify_parity of the word
\* framed
InitParity ==
    /\ stack = <<>>
    /\ ret = None
    /\ spiLog = <<>>
    /\ fLog = <<>>
    /\ lastXfer = NoXfer
    /\ results = <<>>
    /\ transport = "mock"
    /\ dev = Device(0, 0)
    /\ script \in
          {<<TheCall("calculate_parity", 0, w, NoF), TheCall("verify_parity", 0, w, NoF)>> :
              w \in 32768 .. 65535}
          \cup {<<TheCall("calculate_parity", 0, w, NoF), TheCall("verify_parity", 0, w, NoF),
                  TheCall("verify_parity", 0, ParityFramed(w), NoF)>> : w \in 0 .. 32767}

\* The program calls calculate_parity
calculate_parity_call ==
    /\ stack = <<>>
    /\ Len(results) < Len(script)
    /\ CurrentCall.fn = "calculate_parity"
    /\ results' = Append(results, [call |-> CurrentCall,
                                   out |-> Ok(calculate_parity(CurrentCall.data)),
                                   xfer |-> NoXfer])
    /\ UNCHANGED <<stack, ret, spiLog, fLog, lastXfer, script, transport, dev>>

\* The program calls verify_parity
verify_parity_call ==
    /\ stack = <<>>
    /\ Len(results) < Len(script)
    /\ CurrentCall.fn = "verify_parity"
    /\ results' = Append(results, [call |-> CurrentCall,
                                   out |-> Ok(verify_parity(CurrentCall.data)),
                                   xfer |-> NoXfer])
    /\ UNCHANGED <<stack, ret, spiLog, fLog, lastXfer, script, transport, dev>>

NextParity ==
    \/ calculate_parity_call
    \/ verify_parity_call

SpecParity == InitParity /\ [][NextParity]_vars

\* C15: for every 16-bit word w, calculate_parity(w) is true iff w & 0x7FFF has
\* an odd number of one-bits and verify_parity(w) is true iff all 16 bits of w
\* hold an even number of one-bits; hence for every w with bit 15 clear the
\* frame that is w with bit 15 set iff calculate_parity(w) passes verify_parity.
C15_ParityFunctions ==
    \A k \in 1 .. Len(results) :
        LET w == results[k].call.data
            b == results[k].out.val
        IN  /\ results[k].call.fn = "calculate_parity" => (b <=> Ones(w % 32768) % 2 = 1)
            /\ results[k].call.fn = "verify_parity" => (b <=> Ones(w) % 2 = 0)
            /\ k = 3 => /\ results[1].call.data < 32768
                        /\ w = results[1].call.data
                                 + (IF results[1].out.val THEN 32768 ELSE 0)
                        /\ b

\* 0x7FFC has 13 one-bits: the parity bit is set, and 0xFFFC passes
C15_Witness ==
    /\ Len(results) = 3
    /\ results[1].call.data = 32764
    /\ results[1].out.val
    /\ ~results[2].out.val
    /\ results[3].call.data = 65532
    /\ results[3].out.val

\* ---------------------------------------------------------------------------
\* The documented recovery from Err(SensorError)
\* ---------------------------------------------------------------------------

\* The operations the program recovers
RecoveredCalls ==
    {TheCall(fn, 0, 0, NoF) :
        fn \in {"angle", "angle_degrees", "magnitude", "diagnostics", "zero_position"}}
    \cup {TheCall("set_zero_position", 0, v, NoF) : v \in {0, 10602, 16383}}

\* What the sensor's error register may hold when the program starts: nothing,
\* a framing error, an invalid command, a parity error, all three
LatchedErrors == {0, 1, 2, 4, 7}

\* match op() { Err(SensorError) => { clear_error_flag()?; op() } result => result }
RecoveryPrograms ==
    {<<c, TheCall("clear_error_flag", 0, 0, NoF), c>> : c \in RecoveredCalls}

\* The program goes on to clear_error_flag() only after Err(SensorError), and to
\* the retry only when clear_error_flag() returned Ok
RecoveryContinues ==
    CASE Len(results) = 0 -> TRUE
      [] Len(results) = 1 -> results[1].out = SensorError
      [] Len(results) = 2 -> ~IsErr(results[2].out)
      [] OTHER -> FALSE

RecoveryCall == RecoveryContinues /\ Call

InitRecovery ==
    /\ stack = <<>>
    /\ ret = None
    /\ spiLog = <<>>
    /\ fLog = <<>>
    /\ lastXfer = NoXfer
    /\ results = <<>>
    /\ transport = "device"
    /\ dev \in {[Device(z[1], z[2]) EXCEPT !.errfl = e] : z \in StoredZero, e \in LatchedErrors}
    /\ script \in RecoveryPrograms

NextRecovery ==
    \/ RecoveryCall
    \/ read_register_tx_cmd
    \/ read_register_tx_nop
    \/ write_register_tx_cmd
    \/ write_register_tx_data
    \/ write_register_tx_nop
    \/ modify_register_after_read
    \/ modify_register_after_write
    \/ angle_return
    \/ angle_degrees_after_angle
    \/ magnitude_return
    \/ diagnostics_return
    \/ clear_error_flag_return
    \/ zero_position_after_msb
    \/ zero_position_after_lsb
    \/ set_zero_position_after_lsb
    \/ set_zero_position_after_msb

SpecRecovery == InitRecovery /\ [][NextRecovery]_vars

\* What the operation c returns on a sensor holding the registers regs and no
\* latched error
FaultFreeResult(c, regs) ==
    CASE c.fn = "angle" -> [tag |-> "Ok", val |-> regs[16383]]
      [] c.fn = "angle_degrees" -> [tag |-> "Ok", val |-> (regs[16383] * 360) \div 16384]
      [] c.fn = "magnitude" -> [tag |-> "Ok", val |-> regs[16381]]
      [] c.fn = "diagnostics" -> [tag |-> "Ok", val |-> regs[16380]]
      [] c.fn = "zero_position" ->
            [tag |-> "Ok", val |-> ((regs[22] % 256) * 64) + (regs[23] % 64)]
      [] c.fn = "set_zero_position" -> [tag |-> "Ok", val |-> 0]

\* C16: after an operation returned Err(SensorError) while the sensor's error
\* flag is latched, clear_error_flag() (one read of ErrFl, address 0x0001, which
\* resets the latch) returns Ok with the latched bits, and one retry of the
\* operation then returns the operation's Ok result, the sensor answering every
\* frame with correct parity and the transport not failing.
C16_ClearThenRetry ==
    /\ Len(results) >= 2 =>
          /\ results[1].out = [tag |-> "SensorError", val |-> 0]
          /\ results[2].call.fn = "clear_error_flag"
          /\ results[2].out.tag = "Ok"
          /\ results[2].out.val \in LatchedErrors \ {0}
          /\ dev.errfl = 0
    /\ (Len(results) = 2 /\ stack = <<>>) => RecoveryContinues
    /\ Len(results) = 3 =>
          /\ results[3].call = results[1].call
          /\ results[3].out = FaultFreeResult(results[3].call, dev.regs)
          /\ results[3].call.fn = "set_zero_position" =>
                ((dev.regs[22] % 256) * 64) + (dev.regs[23] % 64) = results[3].call.data

\* A latched parity error: angle() fails, the flag is cleared, the retry succeeds
C16_Witness ==
    /\ Len(results) = 3
    /\ results[1].call.fn = "angle"
    /\ results[1].out = [tag |-> "SensorError", val |-> 0]
    /\ results[2].out = [tag |-> "Ok", val |-> 4]
    /\ results[3].out = [tag |-> "Ok", val |-> 4660]
    /\ spiLog = <<<<255, 255>>, <<0, 0>>>>

\* ---------------------------------------------------------------------------
\* The diagnostics decoders on their own
\* ---------------------------------------------------------------------------

\* For every 16-bit raw value the program reads DiagnosticsAgcRegister(raw)
\* through its accessors, then Diagnostics::new(raw) through its accessors
InitDecoder ==
    /\ stack = <<>>
    /\ ret = None
    /\ spiLog = <<>>
    /\ fLog = <<>>
    /\ lastXfer = NoXfer
    /\ results = <<>>
    /\ transport = "mock"
    /\ dev = Device(0, 0)
    /\ script \in
          {<<TheCall("DiagnosticsAgcRegister", 0, raw, NoF),
             TheCall("Diagnostics", 0, raw, NoF)>> : raw \in 0 .. 65535}

\* The program reads every accessor of DiagnosticsAgcRegister(raw)
DiagnosticsAgcRegister_read ==
    /\ stack = <<>>
    /\ Len(results) < Len(script)
    /\ CurrentCall.fn = "DiagnosticsAgcRegister"
    /\ LET raw == CurrentCall.data
       IN  results' = Append(results,
               [call |-> CurrentCall,
                out |-> Ok([too_strong |-> magh(raw), too_weak |-> magl(raw),
                            overflow |-> cof(raw), finished |-> lf(raw),
                            gain |-> agc(raw),
                            field_ok |-> magnetic_field_ok(raw),
                            valid |-> is_valid(raw)]),
                xfer |-> NoXfer])
    /\ UNCHANGED <<stack, ret, spiLog, fLog, lastXfer, script, transport, dev>>

\* The program reads every accessor of Diagnostics::new(raw)
Diagnostics_read ==
    /\ stack = <<>>
    /\ Len(results) < Len(script)
    /\ CurrentCall.fn = "Diagnostics"
    /\ LET raw == CurrentCall.data
       IN  results' = Append(results,
               [call |-> CurrentCall,
                out |-> Ok([too_strong |-> comp_high(raw), too_weak |-> comp_low(raw),
                            overflow |-> cordic_overflow(raw),
                            finished |-> offset_comp_finished(raw),
                            gain |-> agc_value(raw),
                            field_ok |-> Diagnostics_magnetic_field_ok(raw),
                            valid |-> Diagnostics_is_valid(raw)]),
                xfer |-> NoXfer])
    /\ UNCHANGED <<stack, ret, spiLog, fLog, lastXfer, script, transport, dev>>

NextDecoder ==
    \/ DiagnosticsAgcRegister_read
    \/ Diagnostics_read

SpecDecoder == InitDecoder /\ [][NextDecoder]_vars

\* What the claim says a decoder makes of the raw value: flags from bits 11
\* (field too weak), 10 (field too strong), 9 (CORDIC overflow), 8 (offset
\* compensation finished), the gain from bits 7..0
DecodedPerLayout(raw, d) ==
    /\ d.too_weak <=> Bit(raw, 11) = 1
    /\ d.too_strong <=> Bit(raw, 10) = 1
    /\ d.overflow <=> Bit(raw, 9) = 1
    /\ d.finished <=> Bit(raw, 8) = 1
    /\ d.gain = raw % 256
    /\ d.field_ok <=> (Bit(raw, 11) = 0 /\ Bit(raw, 10) = 0)
    /\ d.valid <=> (Bit(raw, 9) = 0 /\ Bit(raw, 11) = 0 /\ Bit(raw, 10) = 0)

\* C17: for every 16-bit raw diagnostics value, is_valid() is true iff the
\* CORDIC-overflow flag is clear and neither field flag is set,
\* magnetic_field_ok() is true iff neither field flag is set, and the AGC value
\* is raw & 0xFF, the four flags being bits 11, 10, 9, 8 of the register: for
\* both decoders of the crate.
C17_DiagnosticsDecoding ==
    \A k \in 1 .. Len(results) :
        DecodedPerLayout(results[k].call.data, results[k].out.val)

\* C17 for DiagnosticsAgcRegister alone, the type diagnostics() returns
C17_RegisterDecoding ==
    \A k \in 1 .. Len(results) :
        results[k].call.fn = "DiagnosticsAgcRegister" =>
            DecodedPerLayout(results[k].call.data, results[k].out.val)

\* 0x0400: bit 10 is the field-too-strong flag of the register, and the
\* offset-compensation flag of Diagnostics, which calls the value valid
C17_Witness ==
    /\ Len(results) = 2
    /\ results[1].call.data = 1024
    /\ results[1].out.val.too_strong
    /\ ~results[1].out.val.valid
    /\ ~results[2].out.val.too_strong
    /\ results[2].out.val.finished
    /\ results[2].out.val.valid

\* ---------------------------------------------------------------------------
\* The writable bitfields on their own
\* ---------------------------------------------------------------------------

\* The fields with a setter, by the getter's name: <<msb, lsb>>.  The fields
\* of more than one bit are set and read as u8, the one-bit fields as bool.
WritableFields ==
    [zposm |-> <<7, 0>>,
     comp_h_error_en |-> <<7, 7>>, comp_l_error_en |-> <<6, 6>>, zposl |-> <<5, 0>>,
     pwmon |-> <<7, 7>>, dataselect |-> <<6, 6>>, abibin |-> <<5, 5>>,
     daecdis |-> <<4, 4>>, uvw_abi |-> <<3, 3>>, dir |-> <<2, 2>>,
     abires |-> <<7, 5>>, hys |-> <<4, 3>>, uvwpp |-> <<2, 0>>]

\* The number of bits of a field
Width(field) == WritableFields[field][1] - WritableFields[field][2] + 1

OneBitFields == {field \in DOMAIN WritableFields : Width(field) = 1}

\* What a register holds before a field of it is set
RawValues == {0, 65535, 10837}

\* reg.set_field(v as u8); reg.field() for every 14-bit v, and for the one-bit
\* fields reg.set_field(b); reg.field() for both booleans (0 and 1 here)
InitField ==
    /\ stack = <<>>
    /\ ret = None
    /\ spiLog = <<>>
    /\ fLog = <<>>
    /\ lastXfer = NoXfer
    /\ results = <<>>
    /\ transport = "mock"
    /\ dev = Device(0, 0)
    /\ script \in
          {<<TheCall("set_field", 0, v, [op |-> field, arg |-> raw])>> :
              v \in 0 .. 16383, field \in (DOMAIN WritableFields) \ OneBitFields,
              raw \in RawValues}
          \cup {<<TheCall("set_field", 0, b, [op |-> field, arg |-> raw])>> :
                  b \in {0, 1}, field \in OneBitFields, raw \in RawValues}

\* The program sets a field of a register value and reads the field back
set_field_then_get ==
    /\ stack = <<>>
    /\ Len(results) < Len(script)
    /\ CurrentCall.fn = "set_field"
    /\ LET range == WritableFields[CurrentCall.f.op]
           reg == set_bit_range(CurrentCall.f.arg, range[1], range[2], AsU8(CurrentCall.data))
       IN  results' = Append(results, [call |-> CurrentCall,
                                       out |-> Ok(bit_range(reg, range[1], range[2])),
                                       xfer |-> NoXfer])
    /\ UNCHANGED <<stack, ret, spiLog, fLog, lastXfer, script, transport, dev>>

NextField == set_field_then_get

SpecField == InitField /\ [][NextField]_vars

\* C18 as stated: for all 14-bit values v and every writable register bitfield
\* (zposm, zposl, the settings fields), reading the field after setting it to v
\* returns v.
C18_FieldReturnsValue ==
    \A k \in 1 .. Len(results) : results[k].out.val = results[k].call.data

\* C18, amended: reading a writable bitfield after setting it to v returns v
\* reduced to the field's width, v mod 2^width, whatever the register held
\* before: v itself exactly when v < 2^width (8 bits for zposm, 6 for zposl, 3
\* for abires and uvwpp, 2 for hys, and both values of a one-bit field).
C18_FieldRoundTrip ==
    \A k \in 1 .. Len(results) :
        LET v == results[k].call.data
            w == Width(results[k].call.f.op)
        IN  /\ results[k].out.val = v % (2 ^ w)
            /\ results[k].out.val = v <=> v < 2 ^ w

\* zposl set to 100 over a register of all ones reads back 36
C18_Witness ==
    /\ Len(results) = 1
    /\ results[1].call.f = [op |-> "zposl", arg |-> 65535]
    /\ results[1].call.data = 100
    /\ results[1].out = [tag |-> "Ok", val |-> 36]

\* ---------------------------------------------------------------------------
\* Two operations on one handle
\* ---------------------------------------------------------------------------

\* The operations of more than one transfer
PairCalls ==
    {TheCall("read_register", ZPosM, 0, NoF),
     TheCall("write_register", ZPosL, 4660, NoF),
     TheCall("modify_register", Settings1, 0, [op |-> "or", arg |-> 49152]),
     TheCall("zero_position", 0, 0, NoF),
     TheCall("set_zero_position", 0, 10602, NoF)}

\* One operation followed by another on the same handle, over the mock
InitPair ==
    /\ stack = <<>>
    /\ ret = None
    /\ spiLog = <<>>
    /\ fLog = <<>>
    /\ lastXfer = NoXfer
    /\ results = <<>>
    /\ transport = "mock"
    /\ dev = Device(0, 0)
    /\ script \in {<<c1, c2>> : c1 \in PairCalls, c2 \in PairCalls}

NextPair ==
    \/ Call
    \/ read_register_tx_cmd
    \/ read_register_tx_nop
    \/ write_register_tx_cmd
    \/ write_register_tx_data
    \/ write_register_tx_nop
    \/ modify_register_after_read
    \/ modify_register_after_write
    \/ zero_position_after_msb
    \/ zero_position_after_lsb
    \/ set_zero_position_after_lsb
    \/ set_zero_position_after_msb

SpecPair == InitPair /\ [][NextPair]_vars

FinalOutcome(fn, x) ==
    IF fn = "write_register" /\ OutcomeOf(x).tag = "Ok"
    THEN [tag |-> "Ok", val |-> 0]
    ELSE OutcomeOf(x)

\* What the read or write that made the last transfer handed to its caller
Handed == IF stack = <<>> THEN LastOut ELSE ret

\* C20: only the final response of an operation is validated.  Whatever frames
\* transfer 1 of a read and transfers 1 and 2 of a write returned (odd parity,
\* bit 14 set), the operation goes on to its next transfer, and what it returns
\* is determined by the outcome of its last transfer alone, hence the same as
\* if the earlier responses had been 0x0000.
C20_OnlyFinalResponseValidated ==
    [][/\ (At("read_register", "tx_cmd") /\ lastXfer'.ok) =>
             (Len(stack') = Len(stack) /\ stack'[Len(stack')].pc = "tx_nop")
       /\ (At("write_register", "tx_cmd") /\ lastXfer'.ok) =>
             (Len(stack') = Len(stack) /\ stack'[Len(stack')].pc = "tx_data")
       /\ (At("write_register", "tx_data") /\ lastXfer'.ok) =>
             (Len(stack') = Len(stack) /\ stack'[Len(stack')].pc = "tx_nop")
       /\ (At("read_register", "tx_nop") \/ At("write_register", "tx_nop")) =>
             /\ Len(stack') = Len(stack) - 1
             /\ Len(spiLog') = Len(spiLog) + 1
             /\ Handed' = FinalOutcome(Top.fn, lastXfer')]_vars

\* A write about to make its last transfer after 0xC001 (odd parity, bit 14 set)
\* and 0xFFFF (bit 14 set) came back on the first two
C20_Witness ==
    /\ At("write_register", "tx_nop")
    /\ Len(spiLog) = 2
    /\ Top.rx = <<<<192, 1>>, <<255, 255>>>>
    /\ results = <<>>

\* ---------------------------------------------------------------------------
\* C21 .. C25
\* ---------------------------------------------------------------------------

\* What each transfer of a call carries, in order: the command of a read, the
\* command of a write, a data frame or the NOP word
FrameRoles(c) ==
    CASE c.fn \in ReadCalls \cup {"angle_degrees"} -> <<"read", "nop">>
      [] c.fn = "write_register" -> <<"write", "data", "nop">>
      [] c.fn = "modify_register" -> <<"read", "nop", "write", "data", "nop">>
      [] c.fn = "zero_position" -> <<"read", "nop", "read", "nop">>
      [] c.fn = "set_zero_position" ->
            <<"read", "nop", "write", "data", "nop", "read", "nop", "write", "data", "nop">>

\* C21: every frame the driver transmits, in any operation and any outcome, has
\* an even number of one-bits over its 16 bits and is sent as two bytes, the
\* most significant first; bit 14 is set in the read commands and in no other
\* frame; the parity bit of a command word is that of its address and read bit,
\* the parity bit of a data frame that of data & 0x3FFF.
C21_TransmittedFrames ==
    Active =>
        \A i \in 1 .. Len(spiLog) :
            LET b == spiLog[i]
                w == b[1] * 256 + b[2]
                role == FrameRoles(LastCall)[i]
            IN  /\ Len(b) = 2
                /\ b[1] \in 0 .. 255
                /\ b[2] \in 0 .. 255
                /\ Ones(w) % 2 = 0
                /\ Bit(w, 14) = 1 <=> role = "read"
                /\ role = "nop" => b = <<0, 0>>
                /\ role \in {"read", "write"} =>
                      /\ w % 16384 \in Register
                      /\ Bit(w, 15) = Ones(w % 32768) % 2
                /\ role = "data" => Bit(w, 15) = Ones(w % 16384) % 2
                /\ LastCall.fn = "read_register" /\ role = "read" =>
                      b = <<WithParity(16384 + LastCall.register) \div 256,
                            WithParity(16384 + LastCall.register) % 256>>
                /\ LastCall.fn = "write_register" /\ role = "write" =>
                      b = <<WithParity(LastCall.register) \div 256,
                            WithParity(LastCall.register) % 256>>
                /\ LastCall.fn = "write_register" /\ role = "data" =>
                      b = <<WithParity(LastCall.data % 16384) \div 256,
                            WithParity(LastCall.data % 16384) % 256>>

\* A write of 0xC001 to Settings1 whose last response has the error flag: the
\* command 0x0018, the data 0x8001 (payload 0x0001 and its parity bit), the NOP
C21_Witness ==
    /\ Finished
    /\ LastCall = TheCall("write_register", Settings1, 32769, NoF)
    /\ spiLog = <<<<0, 24>>, <<128, 1>>, <<0, 0>>>>
    /\ LastOut.tag = "SensorError"

\* ---------------------------------------------------------------------------
\* set_zero_position over every content of the zero position registers
\* ---------------------------------------------------------------------------

\* set_zero_position(0x296A) over the sensor with every 14-bit content of
\* ZPosL, then of ZPosM, and each sample zero position over the stored ones
InitSetZero ==
    /\ stack = <<>>
    /\ ret = None
    /\ spiLog = <<>>
    /\ fLog = <<>>
    /\ lastXfer = NoXfer
    /\ results = <<>>
    /\ transport = "device"
    /\ \/ /\ script = <<TheCall("set_zero_position", 0, 10602, NoF)>>
          /\ dev \in {Device(4660, l) : l \in 0 .. 16383}
                        \cup {Device(m, 10922) : m \in 0 .. 16383}
       \/ /\ script \in {<<TheCall("set_zero_position", 0, v, NoF)>> : v \in ZeroValues}
          /\ dev \in {Device(z[1], z[2]) : z \in StoredZero}

NextSetZero ==
    \/ Call
    \/ read_register_tx_cmd
    \/ read_register_tx_nop
    \/ write_register_tx_cmd
    \/ write_register_tx_data
    \/ write_register_tx_nop
    \/ modify_register_after_read
    \/ modify_register_after_write
    \/ set_zero_position_after_lsb
    \/ set_zero_position_after_msb

SpecSetZero == InitSetZero /\ [][NextSetZero]_vars

\* The 14-bit payload of the i-th frame transmitted
TxPayload(i) == (spiLog[i][1] * 256 + spiLog[i][2]) % 16384

\* C22: set_zero_position(v) changes only the zero position fields.  The value
\* written to ZPosL is the value read from it with bits 5..0 replaced by
\* v & 0x3F and bits 13..6 (the error-enable flags at bits 7 and 6 among them)
\* unchanged; the value written to ZPosM is the value read from it with bits
\* 7..0 replaced by (v >> 6) & 0xFF and bits 13..8 unchanged; no other register
\* is written.
C22_OnlyZeroPositionFields ==
    (Active /\ LastCall.fn = "set_zero_position") =>
        LET v == LastCall.data
        IN  /\ (Len(spiLog) = 2 /\ Len(fLog) = 1) => fLog[1] = RxFrame % 16384
            /\ (Len(spiLog) = 7 /\ Len(fLog) = 2) => fLog[2] = RxFrame % 16384
            /\ Len(spiLog) >= 4 =>
                  /\ spiLog[3] = Wire(WithParity(23))
                  /\ TxPayload(4) % 64 = v % 64
                  /\ TxPayload(4) \div 64 = fLog[1] \div 64
                  /\ dev.regs[23] = TxPayload(4)
            /\ Len(spiLog) >= 9 =>
                  /\ spiLog[8] = Wire(WithParity(22))
                  /\ TxPayload(9) % 256 = (v \div 64) % 256
                  /\ TxPayload(9) \div 256 = fLog[2] \div 256
                  /\ dev.regs[22] = TxPayload(9)
            /\ \A i \in 1 .. Len(spiLog) :
                  FrameRoles(LastCall)[i] = "write" <=> i \in {3, 8}
            /\ \A r \in Register \ {22, 23} : dev.regs[r] = Device(0, 0).regs[r]

\* ZPosL holding 0x3FFF and ZPosM 0x1234: 0x3FEA and 0x12A5 are written
C22_Witness ==
    /\ Finished
    /\ LastCall.data = 10602
    /\ fLog = <<16383, 4660>>
    /\ spiLog[4] = Wire(WithParity(16362))
    /\ spiLog[9] = Wire(WithParity(4773))
    /\ dev.regs[23] = 16362
    /\ dev.regs[22] = 4773
    /\ LastOut = [tag |-> "Ok", val |-> 0]


\* ---------------------------------------------------------------------------
\* set_zero_position over a bus that can fail
\* ---------------------------------------------------------------------------

\* set_zero_position of a sample value over the sensor holding each stored zero
\* position, with no error latched or with PARERR latched, behind the bus that
\* can fail any transfer
InitFaulty ==
    /\ stack = <<>>
    /\ ret = None
    /\ spiLog = <<>>
    /\ fLog = <<>>
    /\ lastXfer = NoXfer
    /\ results = <<>>
    /\ transport = "faulty"
    /\ script \in {<<TheCall("set_zero_position", 0, v, NoF)>> : v \in {0, 10602, 65535}}
    /\ dev \in {[Device(z[1], z[2]) EXCEPT !.errfl = e] : z \in StoredZero, e \in {0, 4}}

SpecFaulty == InitFaulty /\ [][NextSetZero]_vars

\* The frames set_zero_position(v) transmits when nothing fails, as far as the
\* values handed to its closures (fLog) determine them: the read of ZPosL, the
\* write of ZPosL, the read of ZPosM, the write of ZPosM
SetZeroFrames(v) ==
    ReadTransfers(23)
    \o (IF Len(fLog) = 0 THEN <<>>
        ELSE WriteTransfers(23, ((fLog[1] \div 64) * 64) + (v % 64))
             \o ReadTransfers(22)
             \o (IF Len(fLog) = 1 THEN <<>>
                 ELSE WriteTransfers(22, ((fLog[2] \div 256) * 256)
                                         + ((v \div 64) % 256))))

\* C23: set_zero_position(v) modifies ZPosL first and ZPosM second, in ten
\* transfers when it succeeds.  When the modify of ZPosL fails the call returns
\* that error with no further transfer, so ZPosM is neither read nor written.
\* When the modify of ZPosM fails after the modify of ZPosL succeeded the call
\* returns that error, nothing more is transmitted, and ZPosL keeps the value
\* written to it: nothing is rolled back.
C23_NoRollback ==
    /\ [](Active =>
            LET v == LastCall.data
            IN  /\ IsPrefix(spiLog, SetZeroFrames(v))
                /\ (Finished /\ ~IsErr(LastOut)) => Len(spiLog) = 10
                /\ At("set_zero_position", "lsb") => Len(spiLog) <= 5
                /\ Len(spiLog) >= 6 =>
                      dev.regs[23] = ((fLog[1] \div 64) * 64) + (v % 64))
    /\ [][/\ (At("set_zero_position", "lsb") /\ ret # None /\ IsErr(ret)) =>
                /\ Finished'
                /\ LastOut' = ret
                /\ spiLog' = spiLog
                /\ dev' = dev
          /\ (At("set_zero_position", "msb") /\ ret # None /\ IsErr(ret)) =>
                /\ Finished'
                /\ LastOut' = ret
                /\ spiLog' = spiLog
                /\ dev' = dev]_vars

\* set_zero_position(0xFFFF) over ZPosM = 0x1234 and ZPosL = 0x2AAA whose write
\* of ZPosM fails at its data frame, which never reaches the sensor: the call
\* returns the error, ZPosL holds the new 0x2ABF and ZPosM the old 0x1234
C23_Witness ==
    /\ Finished
    /\ LastCall.data = 65535
    /\ LastOut.tag = "Communication"
    /\ Len(spiLog) = 9
    /\ fLog = <<10922, 4660>>
    /\ dev.regs[23] = 10943
    /\ dev.regs[22] = 4660


\* ---------------------------------------------------------------------------
\* zero_position over every content of the zero position registers
\* ---------------------------------------------------------------------------

\* zero_position() over the sensor with every 14-bit content of ZPosM, then of
\* ZPosL, and over each stored zero position behind the bus that can fail
InitZero ==
    /\ stack = <<>>
    /\ ret = None
    /\ spiLog = <<>>
    /\ fLog = <<>>
    /\ lastXfer = NoXfer
    /\ results = <<>>
    /\ script = <<TheCall("zero_position", 0, 0, NoF)>>
    /\ \/ /\ transport = "device"
          /\ dev \in {Device(m, 10922) : m \in 0 .. 16383}
                        \cup {Device(4660, l) : l \in 0 .. 16383}
       \/ /\ transport = "faulty"
          /\ dev \in {[Device(z[1], z[2]) EXCEPT !.errfl = e] :
                         z \in StoredZero, e \in {0, 4}}

NextZero ==
    \/ Call
    \/ read_register_tx_cmd
    \/ read_register_tx_nop
    \/ zero_position_after_msb
    \/ zero_position_after_lsb

SpecZero == InitZero /\ [][NextZero]_vars

\* C24: zero_position() reads ZPosM first and ZPosL second, in four transfers
\* when it succeeds, and returns ((ZPosM & 0xFF) << 6) | (ZPosL & 0x3F): a value
\* of 0 .. 16383 that bits 13..8 of ZPosM and bits 13..6 of ZPosL (bits 7 and 6
\* among them) have no part in.  When the read of ZPosM fails the call returns
\* that error and ZPosL is not read.
C24_ZeroPosition ==
    /\ [](Active =>
            /\ IsPrefix(spiLog, ReadTransfers(22) \o ReadTransfers(23))
            /\ At("zero_position", "msb") => Len(spiLog) <= 2
            /\ (Finished /\ ~IsErr(LastOut)) =>
                  /\ Len(spiLog) = 4
                  /\ LastOut.val = ((dev.regs[22] % 256) * 64) + (dev.regs[23] % 64)
                  /\ LastOut.val \in 0 .. 16383)
    /\ [][(At("zero_position", "msb") /\ ret # None /\ IsErr(ret)) =>
             /\ Finished'
             /\ LastOut' = ret
             /\ spiLog' = spiLog]_vars

\* ZPosM = 0x3F34 and ZPosL = 0x2AAA, bits outside both fields set: the value
\* is (0x34 << 6) | 0x2A = 0x0D2A
C24_Witness ==
    /\ Finished
    /\ LastCall.fn = "zero_position"
    /\ dev.regs[22] = 16180
    /\ dev.regs[23] = 10922
    /\ Len(spiLog) = 4
    /\ LastOut = [tag |-> "Ok", val |-> 3370]


\* ---------------------------------------------------------------------------
\* set_zero_position of every 16-bit value
\* ---------------------------------------------------------------------------

\* set_zero_position(v) for every u16 v, over the sensor holding 0x1234 in ZPosM
\* and 0x2AAA in ZPosL
InitWide ==
    /\ stack = <<>>
    /\ ret = None
    /\ spiLog = <<>>
    /\ fLog = <<>>
    /\ lastXfer = NoXfer
    /\ results = <<>>
    /\ transport = "device"
    /\ dev = Device(4660, 10922)
    /\ script \in {<<TheCall("set_zero_position", 0, v, NoF)>> : v \in 0 .. (U16 - 1)}

SpecWide == InitWide /\ [][NextSetZero]_vars

\* The ten frames that set the 14-bit zero position w over ZPosM = 0x1234 and
\* ZPosL = 0x2AAA, and the registers of the sensor after them
WideFrames(w) ==
    ReadTransfers(23) \o WriteTransfers(23, 10880 + (w % 64))
    \o ReadTransfers(22) \o WriteTransfers(22, 4608 + (w \div 64))

WideRegs(w) == Device(4608 + (w \div 64), 10880 + (w % 64)).regs

\* C25: for every 16-bit v, set_zero_position(v) uses only the low 14 bits of
\* v.  The frames it transmits and the registers it leaves in the sensor are
\* those of v & 0x3FFF, whatever bits 15 and 14 of v are, and it returns Ok(()).
C25_LowFourteenBits ==
    (Active /\ LastCall.fn = "set_zero_position") =>
        LET w == LastCall.data % 16384
        IN  /\ IsPrefix(spiLog, WideFrames(w))
            /\ ret # None => ~IsErr(ret)
            /\ Finished =>
                  /\ spiLog = WideFrames(w)
                  /\ dev.regs = WideRegs(w)
                  /\ dev.errfl = 0
                  /\ dev.awaiting = NoReg
                  /\ LastOut = [tag |-> "Ok", val |-> 0]

\* set_zero_position(0xEB3D), bits 15 and 14 set: the frames and the registers
\* of set_zero_position(0x2B3D), ZPosL = 0x2ABD and ZPosM = 0x12AC
C25_Witness ==
    /\ Finished
    /\ LastCall.data = 60221
    /\ spiLog = WideFrames(11069)
    /\ spiLog[4] = Wire(WithParity(10941))
    /\ spiLog[9] = Wire(WithParity(4780))
    /\ dev.regs[23] = 10941
    /\ dev.regs[22] = 4780
    /\ LastOut = [tag |-> "Ok", val |-> 0]

=============================================================================
